---- MODULE Spec2Model ----
(***************************************************************************)
(* Cosmic Clash (src/src/App.tsx): the wallet session (useWallet), the     *)
(* game-state engine (useContract), the view-resolving effect and the      *)
(* event handlers of App, as one state machine.                            *)
(*                                                                         *)
(* React state is the VARIABLES; every handler, promise continuation and   *)
(* timer callback is one action.  A state change re-renders App: the body  *)
(* of useContract recomputes canClaimFortune and the effects run (the      *)
(* fetchProfile effect when address changed, the view effect until the     *)
(* view is stable), all within the action that changed the state.  An      *)
(* async function captures address and profile of the render that created  *)
(* it, so a task in flight carries the values it was started with.         *)
(***************************************************************************)
EXTENDS Integers, Sequences, FiniteSets, TLC

VARIABLES
  ethereum,         \* window.ethereum is present
  address,          \* useWallet: address
  chainId,          \* useWallet: chainId
  isConnecting,     \* useWallet: isConnecting
  conn,             \* the connect() call in flight: where it is suspended
  profile,          \* useContract: profile
  isLoading,        \* useContract: isLoading
  txPending,        \* useContract: txPending
  lastMatchResult,  \* useContract: lastMatchResult
  canClaimFortune,  \* useContract: canClaimFortune of the last render
  fetches,          \* fetchProfile() calls waiting on their 1000 ms timer
  cmds,             \* createProfile/claimDailyFortune/initiateMatch calls
                    \* suspended on eth_sendTransaction
  view,             \* App: view
  selectedElement,  \* App: selectedElement
  opponentAddress,  \* App: opponentAddress
  matchElement,     \* App: matchElement
  store,            \* localStorage
  now,              \* Date.now()
  issued            \* number of commands accepted so far (bounds the run)

vars == <<ethereum, address, chainId, isConnecting, conn, profile, isLoading,
          txPending, lastMatchResult, canClaimFortune, fetches, cmds, view,
          selectedElement, opponentAddress, matchElement, store, now, issued>>

walletVars == <<address, chainId, isConnecting, conn>>
uiVars == <<selectedElement, opponentAddress>>

----------------------------------------------------------------------------
(* Bounds of the model *)

MaxCmds == 2          \* commands accepted in one run
MaxFetches == 2       \* fetchProfile() timers pending at once
MaxTicks == 1         \* clock steps of TickMs in one run
NumSelectable == 1    \* elements of ELEMENTS the user picks from
RandScale == 100      \* Math.random() is k / RandScale

----------------------------------------------------------------------------
(* Values *)

NullAddr == "null"                 \* address: null
NullNum == -1                      \* chainId: null
NullRec == [null |-> TRUE]         \* profile / lastMatchResult: null
Undefined == "undefined"           \* selectedElement null, matchElement undefined

ELEMENTS == <<"Fire", "Water", "Air", "Earth">>
BASE_CHAIN == 8453
OtherChains == {1}             \* a network id the wallet reports that is not Base
DAY_MS == 24 * 60 * 60 * 1000
TickMs == DAY_MS
StartNow == 2 * DAY_MS
MATCH_COST == 10
WIN_XP == 25
LOSS_XP == 5

Identities == {"addrA", "addrB"}

Rep(c, n) == [i \in 1..n |-> c]

\* The characters of the strings the model names by a token.
Chars(s) ==
  CASE s = "addrA" -> <<"0", "x">> \o Rep("a", 40)
    [] s = "addrB" -> <<"0", "x">> \o Rep("B", 40)
    [] s = "hex39" -> <<"0", "x">> \o Rep("1", 39)
    [] s = "" -> <<>>
    [] OTHER -> <<"n", "o", "t", "-", "a", "n", "-", "a", "d", "d", "r", "e", "s", "s">>

\* what the user types into the opponent input (empty at first)
OpponentInputs == {"addrA", "hex39"}

HexDigits == {"0", "1", "2", "3", "4", "5", "6", "7", "8", "9",
              "a", "b", "c", "d", "e", "f", "A", "B", "C", "D", "E", "F"}

\* the pattern without its length: /^0x[a-fA-F0-9]+$/
IsAddressFormat_AnyLength(s) ==
  LET cs == Chars(s) IN
    /\ Len(cs) >= 3
    /\ cs[1] = "0"
    /\ cs[2] = "x"
    /\ \A i \in 3..Len(cs) : cs[i] \in HexDigits

\* /^0x[a-fA-F0-9]{40}$/
IsAddressFormat(s) ==
  LET cs == Chars(s) IN
    /\ Len(cs) = 42
    /\ cs[1] = "0"
    /\ cs[2] = "x"
    /\ \A i \in 3..42 : cs[i] \in HexDigits

\* Math.random(): k / RandScale for a k of RandomDraws
RandomDraws == {0, RandScale - 1}

\* the draws of ELEMENTS[Math.floor(Math.random() * 4)]
ElementDraws == {RandScale - 1}

\* Math.floor(Math.random() * n)
FloorRandom(k, n) == (k * n) \div RandScale

SelectableElements == {ELEMENTS[i] : i \in 1..NumSelectable}

----------------------------------------------------------------------------
(* localStorage *)

StorageKey(a) == <<"astro_profile_", a>>
StorageKeys == {StorageKey(a) : a \in Identities}
NoItem == <<>>

\* JSON.stringify(profile)
Stringify(p) ==
  <<p.element, p.luckyNumber, p.xp, p.level, p.energy, p.winStreak,
    p.lastFortuneTime, p.exists>>

\* JSON.parse(stored)
Parse(s) ==
  [element |-> s[1], luckyNumber |-> s[2], xp |-> s[3], level |-> s[4],
   energy |-> s[5], winStreak |-> s[6], lastFortuneTime |-> s[7],
   exists |-> s[8]]

\* fetchProfile: the profile read for an address
LoadProfile(st, a) ==
  IF st[StorageKey(a)] # NoItem THEN Parse(st[StorageKey(a)]) ELSE NullRec

SetItem(st, a, p) == [st EXCEPT ![StorageKey(a)] = Stringify(p)]

----------------------------------------------------------------------------
(* useContract: the values the commands compute *)

\* profile?.exists
ProfileExists(p) == p # NullRec /\ p.exists

\* newProfile with the lucky number drawn from 0: Math.floor(Math.random() * 100)
NewProfile_LuckyFromZero(element, k) ==
  [element |-> element,
   luckyNumber |-> FloorRandom(k, 100),
   xp |-> 0,
   level |-> 1,
   energy |-> 100,
   winStreak |-> 0,
   lastFortuneTime |-> 0,
   exists |-> TRUE]

\* createProfile: newProfile (k: the Math.random() draw)
NewProfile(element, k) ==
  [element |-> element,
   luckyNumber |-> FloorRandom(k, 100) + 1,
   xp |-> 0,
   level |-> 1,
   energy |-> 100,
   winStreak |-> 0,
   lastFortuneTime |-> 0,
   exists |-> TRUE]

\* the fortune with the range one too wide: Math.floor(Math.random() * 51) + 10
Fortune_OneTooWide(k) == FloorRandom(k, 51) + 10

\* claimDailyFortune: fortune
Fortune(k) == FloorRandom(k, 50) + 10

\* claimDailyFortune: updatedProfile (p: the profile the call captured)
FortuneProfile(p, k, t) ==
  [p EXCEPT !.xp = p.xp + Fortune(k),
            !.level = ((p.xp + Fortune(k)) \div 100) + 1,
            !.lastFortuneTime = t]

\* initiateMatch: userWins
UserWins(k) == 2 * k > RandScale

\* xpGained with the two awards swapped: userWins ? 5 : 25
XpGained_Swapped(userWins) == IF userWins THEN LOSS_XP ELSE WIN_XP

\* initiateMatch: xpGained
XpGained(userWins) == IF userWins THEN WIN_XP ELSE LOSS_XP

Max(a, b) == IF a >= b THEN a ELSE b

\* initiateMatch: result
MatchResultOf(a, p, opponent, kElement, userWins, t) ==
  [winner |-> IF userWins THEN a ELSE opponent,
   timestamp |-> t,
   player1Element |-> p.element,
   player2Element |-> ELEMENTS[FloorRandom(kElement, 4) + 1]]

\* updatedProfile with the level taken from the xp before the match
MatchProfile_StaleLevel(p, userWins) ==
  [p EXCEPT !.xp = p.xp + XpGained(userWins),
            !.level = (p.xp \div 100) + 1,
            !.winStreak = IF userWins THEN p.winStreak + 1 ELSE 0,
            !.energy = Max(0, p.energy - MATCH_COST)]

\* updatedProfile with the energy cost added instead of subtracted
MatchProfile_EnergyAdded(p, userWins) ==
  [p EXCEPT !.xp = p.xp + XpGained(userWins),
            !.level = ((p.xp + XpGained(userWins)) \div 100) + 1,
            !.winStreak = IF userWins THEN p.winStreak + 1 ELSE 0,
            !.energy = Max(0, p.energy + MATCH_COST)]

\* initiateMatch: updatedProfile
MatchProfile(p, userWins) ==
  [p EXCEPT !.xp = p.xp + XpGained(userWins),
            !.level = ((p.xp + XpGained(userWins)) \div 100) + 1,
            !.winStreak = IF userWins THEN p.winStreak + 1 ELSE 0,
            !.energy = Max(0, p.energy - MATCH_COST)]

\* canClaimFortune with >= for >
CanClaimFortune_AtLeast(p, t) ==
  IF p # NullRec THEN t - p.lastFortuneTime >= DAY_MS ELSE FALSE

\* canClaimFortune, as a render at time t computes it
CanClaimFortune(p, t) ==
  IF p # NullRec THEN t - p.lastFortuneTime > DAY_MS ELSE FALSE

----------------------------------------------------------------------------
(* App: the view effect *)

Views == {"connect", "create", "dashboard", "match", "battle"}

\* the effect without its first branch (if (!address) setView('connect'))
ResolveView_NoIdentityBranch(addr, loading, prof, lmr, v) ==
  IF loading THEN "connect"
  ELSE IF ~ProfileExists(prof) THEN "create"
  ELSE IF lmr # NullRec /\ v = "match" THEN "battle"
  ELSE IF v \in {"connect", "create"} THEN "dashboard"
  ELSE v

\* the effect without its create branch (else if (!profile?.exists))
ResolveView_NoProfileBranch(addr, loading, prof, lmr, v) ==
  IF addr = NullAddr THEN "connect"
  ELSE IF loading THEN "connect"
  ELSE IF lmr # NullRec /\ v = "match" THEN "battle"
  ELSE IF v \in {"connect", "create"} THEN "dashboard"
  ELSE v

\* the effect with the battle branch not tied to the match view
ResolveView_BattleFromAnyView(addr, loading, prof, lmr, v) ==
  IF addr = NullAddr THEN "connect"
  ELSE IF loading THEN "connect"
  ELSE IF ~ProfileExists(prof) THEN "create"
  ELSE IF lmr # NullRec THEN "battle"
  ELSE IF v \in {"connect", "create"} THEN "dashboard"
  ELSE v

\* one run of the effect
ResolveView(addr, loading, prof, lmr, v) ==
  IF addr = NullAddr THEN "connect"
  ELSE IF loading THEN "connect"
  ELSE IF ~ProfileExists(prof) THEN "create"
  ELSE IF lmr # NullRec /\ v = "match" THEN "battle"
  ELSE IF v \in {"connect", "create"} THEN "dashboard"
  ELSE v

\* view is a dependency of the effect: it runs again until view is stable
RECURSIVE StableView(_, _, _, _, _)
StableView(addr, loading, prof, lmr, v) ==
  LET w == ResolveView(addr, loading, prof, lmr, v) IN
    IF w = v THEN v ELSE StableView(addr, loading, prof, lmr, w)

\* setMatchElement(lastMatchResult.player2Element), in the battle branch
MatchElementAfter(addr, loading, prof, lmr, v, m) ==
  IF v = "match" /\ ResolveView(addr, loading, prof, lmr, v) = "battle"
  THEN lmr.player2Element ELSE m

\* The render that follows a state change: useContract recomputes
\* canClaimFortune and App's effect settles the view.
Rerender ==
  /\ view' = StableView(address', isLoading', profile', lastMatchResult', view)
  /\ matchElement' = MatchElementAfter(address', isLoading', profile',
                                       lastMatchResult', view, matchElement)
  /\ canClaimFortune' = CanClaimFortune(profile', now')

----------------------------------------------------------------------------
(* Initial state: the page has just loaded.  localStorage is what earlier  *)
(* sessions left: addrA is a player who has played nine matches (seven     *)
(* lost, two won, the last one lost) and claimed one fortune of 10 exactly *)
(* 24 hours before the page loaded; addrB has never played.                *)

Veteran ==
  [element |-> "Earth", luckyNumber |-> 51, xp |-> 95, level |-> 1,
   energy |-> 10, winStreak |-> 0, lastFortuneTime |-> StartNow - DAY_MS,
   exists |-> TRUE]

EmptyStore == [k \in StorageKeys |-> NoItem]

InitStores == {SetItem(EmptyStore, "addrA", Veteran)}

Idle == [pc |-> "idle"]

Init ==
  /\ ethereum \in BOOLEAN
  /\ address = NullAddr
  /\ chainId = NullNum
  /\ isConnecting = FALSE
  /\ conn = Idle
  /\ profile = NullRec
  /\ isLoading = FALSE
  /\ txPending = FALSE
  /\ lastMatchResult = NullRec
  /\ canClaimFortune = FALSE
  /\ fetches = <<>>
  /\ cmds = <<>>
  /\ view = "connect"
  /\ selectedElement = Undefined
  /\ opponentAddress = ""
  /\ matchElement = Undefined
  /\ store \in InitStores
  /\ now = StartNow
  /\ issued = 0

----------------------------------------------------------------------------
(* useWallet *)

\* the fetchProfile effect: fetchProfile changes with address, and the call
\* returns at once when the new address is null
FetchEffect(newAddress) ==
  IF newAddress # address /\ newAddress # NullAddr
  THEN /\ Len(fetches) < MaxFetches
       /\ fetches' = Append(fetches, newAddress)
       /\ isLoading' = TRUE
  ELSE UNCHANGED <<fetches, isLoading>>

\* the Connect Wallet button: connect() up to its first await
ConnectClick ==
  /\ view = "connect"
  /\ ~isConnecting
  /\ IF ethereum
     THEN /\ isConnecting' = TRUE
          /\ conn' = [pc |-> "request"]
     ELSE UNCHANGED <<isConnecting, conn>>
  /\ UNCHANGED <<ethereum, address, chainId, profile, isLoading, txPending,
                 lastMatchResult, fetches, cmds, selectedElement,
                 opponentAddress, store, now, issued>>
  /\ Rerender

\* eth_requestAccounts or eth_chainId rejects: the outer catch
ConnFail ==
  /\ conn.pc = "request"
  /\ conn' = Idle
  /\ isConnecting' = FALSE
  /\ UNCHANGED <<ethereum, address, chainId, profile, isLoading, txPending,
                 lastMatchResult, fetches, cmds, selectedElement,
                 opponentAddress, store, now, issued>>
  /\ Rerender

\* eth_requestAccounts resolves with accounts[0] = acct and eth_chainId with
\* chain c (no state is set between the two awaits): setAddress, setChainId,
\* and the switch request when c is not Base
ConnResolve(acct, c) ==
  /\ conn.pc = "request"
  /\ address' = acct
  /\ chainId' = c
  /\ IF c # BASE_CHAIN
     THEN /\ conn' = [pc |-> "switch"]
          /\ UNCHANGED isConnecting
     ELSE /\ conn' = Idle
          /\ isConnecting' = FALSE
  /\ FetchEffect(acct)
  /\ UNCHANGED <<ethereum, profile, txPending, lastMatchResult, cmds,
                 selectedElement, opponentAddress, store, now, issued>>
  /\ Rerender

\* wallet_switchEthereumChain resolves
ConnSwitchOk ==
  /\ conn.pc = "switch"
  /\ chainId' = BASE_CHAIN
  /\ conn' = Idle
  /\ isConnecting' = FALSE
  /\ UNCHANGED <<ethereum, address, profile, isLoading, txPending,
                 lastMatchResult, fetches, cmds, selectedElement,
                 opponentAddress, store, now, issued>>
  /\ Rerender

\* wallet_switchEthereumChain rejects; unknown: switchError.code === 4902
ConnSwitchFail(unknown) ==
  /\ conn.pc = "switch"
  /\ IF unknown
     THEN /\ conn' = [pc |-> "add"]
          /\ UNCHANGED isConnecting
     ELSE /\ conn' = Idle
          /\ isConnecting' = FALSE
  /\ UNCHANGED <<ethereum, address, chainId, profile, isLoading, txPending,
                 lastMatchResult, fetches, cmds, selectedElement,
                 opponentAddress, store, now, issued>>
  /\ Rerender

\* wallet_addEthereumChain followed by setChainId(8453)
ConnAddDone_SetsChain ==
  /\ conn.pc = "add"
  /\ conn' = Idle
  /\ isConnecting' = FALSE
  /\ chainId' = BASE_CHAIN
  /\ UNCHANGED <<ethereum, address, profile, isLoading, txPending,
                 lastMatchResult, fetches, cmds, selectedElement,
                 opponentAddress, store, now, issued>>
  /\ Rerender

\* wallet_addEthereumChain resolves, or rejects into the outer catch
ConnAddDone ==
  /\ conn.pc = "add"
  /\ conn' = Idle
  /\ isConnecting' = FALSE
  /\ UNCHANGED <<ethereum, address, chainId, profile, isLoading, txPending,
                 lastMatchResult, fetches, cmds, selectedElement,
                 opponentAddress, store, now, issued>>
  /\ Rerender

\* disconnect() that forgets setChainId(null)
Disconnect_KeepsChain ==
  /\ address # NullAddr
  /\ address' = NullAddr
  /\ FetchEffect(NullAddr)
  /\ UNCHANGED <<ethereum, chainId, isConnecting, conn, profile, txPending,
                 lastMatchResult, cmds, selectedElement, opponentAddress,
                 store, now, issued>>
  /\ Rerender

\* disconnect() that also removes the profile saved for the address
Disconnect_RemovesItem ==
  /\ address # NullAddr
  /\ address' = NullAddr
  /\ chainId' = NullNum
  /\ store' = [store EXCEPT ![StorageKey(address)] = NoItem]
  /\ FetchEffect(NullAddr)
  /\ UNCHANGED <<ethereum, isConnecting, conn, profile, txPending,
                 lastMatchResult, cmds, selectedElement, opponentAddress,
                 now, issued>>
  /\ Rerender

\* disconnect() that also resets the pending flag of the engine
Disconnect_ClearsPending ==
  /\ address # NullAddr
  /\ address' = NullAddr
  /\ chainId' = NullNum
  /\ txPending' = FALSE
  /\ FetchEffect(NullAddr)
  /\ UNCHANGED <<ethereum, isConnecting, conn, profile, lastMatchResult, cmds,
                 selectedElement, opponentAddress, store, now, issued>>
  /\ Rerender

\* the address button of the header: disconnect()
Disconnect ==
  /\ address # NullAddr
  /\ address' = NullAddr
  /\ chainId' = NullNum
  /\ FetchEffect(NullAddr)
  /\ UNCHANGED <<ethereum, isConnecting, conn, profile, txPending,
                 lastMatchResult, cmds, selectedElement, opponentAddress,
                 store, now, issued>>
  /\ Rerender

----------------------------------------------------------------------------
(* useContract: fetchProfile *)

\* the 1000 ms timer of the oldest fetchProfile() call fires
FetchDone ==
  /\ fetches # <<>>
  /\ profile' = LoadProfile(store, Head(fetches))
  /\ isLoading' = FALSE
  /\ fetches' = Tail(fetches)
  /\ UNCHANGED <<ethereum, address, chainId, isConnecting, conn, txPending,
                 lastMatchResult, cmds, selectedElement, opponentAddress,
                 store, now, issued>>
  /\ Rerender

----------------------------------------------------------------------------
(* App: the buttons and inputs *)

\* <ActionButton disabled={!selectedElement || txPending}>
CreateDisabled == selectedElement = Undefined \/ txPending

\* the Claim button without its txPending guard
ClaimDisabled_NoPendingGuard == ~canClaimFortune

\* <ActionButton disabled={!canClaimFortune || txPending}>
ClaimDisabled == ~canClaimFortune \/ txPending

\* the Challenge button without its energy guard
MatchDisabled_NoEnergyGuard ==
  ~IsAddressFormat(opponentAddress) \/ txPending

\* <ActionButton disabled={!opponentAddress.match(...) || txPending ||
\*                         profile.energy < 10}>
MatchDisabled ==
  ~IsAddressFormat(opponentAddress) \/ txPending \/ profile.energy < 10

\* {view === 'dashboard' && profile && (...)}
DashboardShown == view = "dashboard" /\ profile # NullRec

\* an element button of the create view: setSelectedElement(e)
SelectElement(e) ==
  /\ view = "create"
  /\ e # selectedElement
  /\ selectedElement' = e
  /\ UNCHANGED <<ethereum, address, chainId, isConnecting, conn, profile,
                 isLoading, txPending, lastMatchResult, fetches, cmds,
                 opponentAddress, store, now, issued>>
  /\ Rerender

\* the opponent input of the dashboard: setOpponentAddress(s)
TypeOpponent(s) ==
  /\ DashboardShown
  /\ s # opponentAddress
  /\ opponentAddress' = s
  /\ UNCHANGED <<ethereum, address, chainId, isConnecting, conn, profile,
                 isLoading, txPending, lastMatchResult, fetches, cmds,
                 selectedElement, store, now, issued>>
  /\ Rerender

----------------------------------------------------------------------------
(* useContract: the commands, up to their await of eth_sendTransaction *)

\* a call in flight: the operation, the address and profile its closure
\* captured, and its argument
Call(op, arg) ==
  [op |-> op, address |-> address, profile |-> profile, arg |-> arg]

\* Create Profile: handleCreateProfile -> createProfile(selectedElement)
CreateClick ==
  /\ view = "create"
  /\ ~CreateDisabled
  /\ selectedElement # Undefined
  /\ address # NullAddr
  /\ ethereum
  /\ issued < MaxCmds
  /\ txPending' = TRUE
  /\ cmds' = Append(cmds, Call("create", selectedElement))
  /\ issued' = issued + 1
  /\ UNCHANGED <<ethereum, address, chainId, isConnecting, conn, profile,
                 isLoading, lastMatchResult, fetches, selectedElement,
                 opponentAddress, store, now>>
  /\ Rerender

\* Claim Fortune: claimDailyFortune()
ClaimClick ==
  /\ DashboardShown
  /\ ~ClaimDisabled
  /\ address # NullAddr /\ profile # NullRec
  /\ ethereum
  /\ issued < MaxCmds
  /\ txPending' = TRUE
  /\ cmds' = Append(cmds, Call("claim", ""))
  /\ issued' = issued + 1
  /\ UNCHANGED <<ethereum, address, chainId, isConnecting, conn, profile,
                 isLoading, lastMatchResult, fetches, selectedElement,
                 opponentAddress, store, now>>
  /\ Rerender

\* Challenge: handleMatch -> initiateMatch(opponentAddress)
MatchClick ==
  /\ DashboardShown
  /\ ~MatchDisabled
  /\ opponentAddress # "" /\ IsAddressFormat(opponentAddress)
  /\ address # NullAddr /\ profile # NullRec
  /\ ethereum
  /\ issued < MaxCmds
  /\ txPending' = TRUE
  /\ cmds' = Append(cmds, Call("match", opponentAddress))
  /\ issued' = issued + 1
  /\ UNCHANGED <<ethereum, address, chainId, isConnecting, conn, profile,
                 isLoading, lastMatchResult, fetches, selectedElement,
                 opponentAddress, store, now>>
  /\ Rerender

----------------------------------------------------------------------------
(* useContract: the commands, from the await on *)

Remove(q, i) == [j \in 1..(Len(q) - 1) |-> IF j < i THEN q[j] ELSE q[j + 1]]

\* localStorage.setItem: saved, or it throws (quota, storage disabled) and
\* the catch of the command logs it
SaveOrThrow(a, p, saved) ==
  store' = IF saved THEN SetItem(store, a, p) ELSE store

\* the failure path with setTxPending(false) inside the try block: a
\* rejection leaves the flag set
CmdReject_KeepsPending(i) ==
  /\ i \in 1..Len(cmds)
  /\ cmds' = Remove(cmds, i)
  /\ UNCHANGED <<ethereum, address, chainId, isConnecting, conn, profile,
                 isLoading, txPending, lastMatchResult, fetches,
                 selectedElement, opponentAddress, store, now, issued>>
  /\ Rerender

\* the failure path as a best-effort submission would have it: the local
\* transition of createProfile is applied although the request rejected
CmdReject_StillApplies(i) ==
  /\ i \in 1..Len(cmds)
  /\ cmds' = Remove(cmds, i)
  /\ txPending' = FALSE
  /\ IF cmds[i].op = "create"
     THEN /\ profile' = NewProfile(cmds[i].arg, 0)
          /\ store' = SetItem(store, cmds[i].address, NewProfile(cmds[i].arg, 0))
     ELSE UNCHANGED <<profile, store>>
  /\ UNCHANGED <<ethereum, address, chainId, isConnecting, conn, isLoading,
                 lastMatchResult, fetches, selectedElement, opponentAddress,
                 now, issued>>
  /\ Rerender

\* eth_sendTransaction rejects: the catch logs, setTxPending(false)
CmdReject(i) ==
  /\ i \in 1..Len(cmds)
  /\ cmds' = Remove(cmds, i)
  /\ txPending' = FALSE
  /\ UNCHANGED <<ethereum, address, chainId, isConnecting, conn, profile,
                 isLoading, lastMatchResult, fetches, selectedElement,
                 opponentAddress, store, now, issued>>
  /\ Rerender

\* createProfile after eth_sendTransaction resolved
CreateDone(i, k, saved) ==
  /\ i \in 1..Len(cmds)
  /\ cmds[i].op = "create"
  /\ profile' = NewProfile(cmds[i].arg, k)
  /\ SaveOrThrow(cmds[i].address, NewProfile(cmds[i].arg, k), saved)
  /\ txPending' = FALSE
  /\ cmds' = Remove(cmds, i)
  /\ UNCHANGED <<ethereum, address, chainId, isConnecting, conn, isLoading,
                 lastMatchResult, fetches, selectedElement, opponentAddress,
                 now, issued>>
  /\ Rerender

\* claimDailyFortune after eth_sendTransaction resolved
ClaimDone(i, k, saved) ==
  /\ i \in 1..Len(cmds)
  /\ cmds[i].op = "claim"
  /\ profile' = FortuneProfile(cmds[i].profile, k, now)
  /\ SaveOrThrow(cmds[i].address, FortuneProfile(cmds[i].profile, k, now), saved)
  /\ txPending' = FALSE
  /\ cmds' = Remove(cmds, i)
  /\ UNCHANGED <<ethereum, address, chainId, isConnecting, conn, isLoading,
                 lastMatchResult, fetches, selectedElement, opponentAddress,
                 now, issued>>
  /\ Rerender

\* initiateMatch after eth_sendTransaction resolved
MatchDone(i, kElement, kWin, saved) ==
  /\ i \in 1..Len(cmds)
  /\ cmds[i].op = "match"
  /\ lastMatchResult' = MatchResultOf(cmds[i].address, cmds[i].profile,
                                      cmds[i].arg, kElement, UserWins(kWin), now)
  /\ profile' = MatchProfile(cmds[i].profile, UserWins(kWin))
  /\ SaveOrThrow(cmds[i].address, MatchProfile(cmds[i].profile, UserWins(kWin)),
                 saved)
  /\ txPending' = FALSE
  /\ cmds' = Remove(cmds, i)
  /\ UNCHANGED <<ethereum, address, chainId, isConnecting, conn, isLoading,
                 fetches, selectedElement, opponentAddress, now, issued>>
  /\ Rerender

----------------------------------------------------------------------------
(* The clock *)

Tick ==
  /\ now < StartNow + MaxTicks * TickMs
  /\ now' = now + TickMs
  /\ UNCHANGED <<ethereum, address, chainId, isConnecting, conn, profile,
                 isLoading, txPending, lastMatchResult, canClaimFortune,
                 fetches, cmds, view, selectedElement, opponentAddress,
                 matchElement, store, issued>>

----------------------------------------------------------------------------
(* The machine *)

WalletStep ==
  \/ ConnectClick
  \/ ConnFail
  \/ \E acct \in Identities, c \in {BASE_CHAIN} \cup OtherChains :
       ConnResolve(acct, c)
  \/ ConnSwitchOk
  \/ \E unknown \in BOOLEAN : ConnSwitchFail(unknown)
  \/ ConnAddDone
  \/ Disconnect

UserStep ==
  \/ \E e \in SelectableElements : SelectElement(e)
  \/ \E s \in OpponentInputs : TypeOpponent(s)
  \/ CreateClick
  \/ ClaimClick
  \/ MatchClick

\* the wallet answers eth_sendTransaction
LedgerStep ==
  \/ \E i \in 1..Len(cmds) : CmdReject(i)
  \/ \E i \in 1..Len(cmds), k \in RandomDraws, saved \in BOOLEAN :
       CreateDone(i, k, saved)
  \/ \E i \in 1..Len(cmds), k \in RandomDraws, saved \in BOOLEAN :
       ClaimDone(i, k, saved)
  \/ \E i \in 1..Len(cmds), kElement \in ElementDraws, kWin \in RandomDraws,
        saved \in BOOLEAN : MatchDone(i, kElement, kWin, saved)

Next == WalletStep \/ UserStep \/ LedgerStep \/ FetchDone \/ Tick

Spec == Init /\ [][Next]_vars

\* The scheduling the code can count on: a timer that was set fires.
EngineFair == Spec /\ WF_vars(FetchDone)

\* ... and, where a claim assumes it, the wallet answers every request.
LedgerFair == EngineFair /\ WF_vars(LedgerStep)

----------------------------------------------------------------------------
(* The view effect on its own: one run of the effect from every combination *)
(* of its dependencies (address, profile, isLoading, lastMatchResult, view) *)

\* the MatchResults the effect is run on
ViewResults ==
  {NullRec} \cup
  {MatchResultOf("addrA", Veteran, "addrB", k, TRUE, StartNow) : k \in {0, RandScale - 1}}

ViewInit ==
  /\ ethereum = TRUE
  /\ address \in {NullAddr} \cup Identities
  /\ chainId = IF address = NullAddr THEN NullNum ELSE BASE_CHAIN
  /\ isConnecting = FALSE
  /\ conn = Idle
  /\ profile \in {NullRec, Veteran}
  /\ isLoading \in BOOLEAN
  /\ txPending = FALSE
  /\ lastMatchResult \in ViewResults
  /\ canClaimFortune = CanClaimFortune(profile, StartNow)
  /\ fetches = <<>>
  /\ cmds = <<>>
  /\ view \in Views
  /\ selectedElement = Undefined
  /\ opponentAddress = ""
  /\ matchElement = Undefined
  /\ store \in InitStores
  /\ now = StartNow
  /\ issued = 0

\* one run of the effect: setMatchElement in the battle branch, setView
ViewEffect ==
  /\ view' = ResolveView(address, isLoading, profile, lastMatchResult, view)
  /\ matchElement' = MatchElementAfter(address, isLoading, profile,
                                       lastMatchResult, view, matchElement)
  /\ UNCHANGED <<ethereum, address, chainId, isConnecting, conn, profile,
                 isLoading, txPending, lastMatchResult, canClaimFortune,
                 fetches, cmds, selectedElement, opponentAddress, store, now,
                 issued>>

ViewNext == ViewEffect

ViewSpec == ViewInit /\ [][ViewNext]_vars

----------------------------------------------------------------------------
(* Claims *)

\* the item localStorage holds for an identity
Stored(a) == store[StorageKey(a)]

\* a step in which eth_sendTransaction of call i rejects
Rejects(i) == CmdReject(i)

\* a step in which call i is answered and applies its local transition
Applies(i, saved) ==
  \/ \E k \in RandomDraws : CreateDone(i, k, saved)
  \/ \E k \in RandomDraws : ClaimDone(i, k, saved)
  \/ \E kElement \in ElementDraws, kWin \in RandomDraws :
       MatchDone(i, kElement, kWin, saved)

\* C1: at most one of createProfile, claimDailyFortune and initiateMatch is
\* in flight, and txPending is set exactly while one is: no command is
\* accepted (and so none writes the profile) while another is pending.
C1_MutualExclusion ==
  /\ Len(cmds) <= 1
  /\ (txPending <=> cmds # <<>>)

\* C1 witness: a match is in flight while the Claim button of the dashboard
\* would be enabled but for txPending.
C1_Witness ==
  /\ Len(cmds) = 1
  /\ cmds[1].op = "match"
  /\ txPending
  /\ DashboardShown
  /\ canClaimFortune

C4_PendingExitsOnce ==
  /\ (txPending ~> ~txPending)
  /\ [](txPending <=> cmds # <<>>)
  /\ [][ (txPending /\ ~txPending') <=> Len(cmds') < Len(cmds) ]_vars

\* C4 witness: createProfile for addrB has ended with the save thrown (the
\* profile is in memory, not in the store) and the flag is cleared.
C4_Witness ==
  /\ ~txPending
  /\ cmds = <<>>
  /\ issued = 1
  /\ address = "addrB"
  /\ ProfileExists(profile)
  /\ profile.xp = 0
  /\ Stored("addrB") = NoItem

\* C5 as stated: when localStorage.setItem throws in a command, the
\* in-memory profile and the last MatchResult are what they were before.
C5_StoreFailureReverts ==
  [][ \A i \in 1..Len(cmds) :
        Applies(i, FALSE) =>
          /\ profile' = profile
          /\ lastMatchResult' = lastMatchResult ]_vars

\* C6: every profile in memory, in the store or captured by a call in
\* flight has level = floor(xp / 100) + 1.
C6_LevelInvariant ==
  LET LevelOk(p) == p.level = (p.xp \div 100) + 1 IN
  /\ profile # NullRec => LevelOk(profile)
  /\ \A a \in Identities : Stored(a) # NoItem => LevelOk(Parse(Stored(a)))
  /\ \A i \in 1..Len(cmds) :
       cmds[i].profile # NullRec => LevelOk(cmds[i].profile)

\* C6 witness: a stored profile has reached xp = 100 and level 2.
C6_Witness ==
  \E a \in Identities :
    /\ Stored(a) # NoItem
    /\ Parse(Stored(a)).xp = 100
    /\ Parse(Stored(a)).level = 2

\* C7: every profile in memory or in the store has 0 <= energy <= 100; an
\* initiateMatch leaves the profile it was called on with its energy less 10
\* and never below 0, so never more than before; and the update of a profile
\* with less than 10 energy gives energy 0.
C7_EnergyBounds ==
  [][ /\ profile' # NullRec => (0 <= profile'.energy /\ profile'.energy <= 100)
      /\ \A a \in Identities :
           Stored(a)' # NoItem =>
             /\ 0 <= Parse(Stored(a)').energy
             /\ Parse(Stored(a)').energy <= 100
      /\ \A i \in 1..Len(cmds) :
           (\E kElement \in ElementDraws, kWin \in RandomDraws, saved \in BOOLEAN :
              MatchDone(i, kElement, kWin, saved)) =>
             /\ profile'.energy <= cmds[i].profile.energy
             /\ profile'.energy >= 0
             /\ profile'.energy =
                  IF cmds[i].profile.energy < 10 THEN 0
                  ELSE cmds[i].profile.energy - 10
      /\ \A e \in 0..9, w \in BOOLEAN :
           MatchProfile([Veteran EXCEPT !.energy = e], w).energy = 0 ]_vars

\* C7 witness: a match has taken a profile's energy to 0.
C7_Witness ==
  /\ profile # NullRec
  /\ profile.energy = 0
  /\ lastMatchResult # NullRec
  /\ lastMatchResult.player1Element = profile.element

\* C8 as stated: a createProfile called for an identity that has a stored
\* profile with exists = true changes neither the in-memory profile nor
\* the store.
C8_CreateProfileIdempotent ==
  [][ \A i \in 1..Len(cmds) :
        ( /\ cmds[i].op = "create"
          /\ Stored(cmds[i].address) # NoItem
          /\ Parse(Stored(cmds[i].address)).exists
          /\ \E k \in RandomDraws, saved \in BOOLEAN : CreateDone(i, k, saved) ) =>
          /\ store' = store
          /\ profile' = profile ]_vars

\* C9: the Claim button is enabled only when more than 24 h have passed
\* since the profile's lastFortuneTime, so every claimDailyFortune in flight
\* was called on an eligible profile and an ineligible one changes
\* nothing; a profile with lastFortuneTime = 0 is eligible.
C9_ClaimRejectedWhenNotEligible ==
  /\ (DashboardShown /\ ~txPending /\ canClaimFortune) =>
       now - profile.lastFortuneTime > DAY_MS
  /\ \A i \in 1..Len(cmds) :
       cmds[i].op = "claim" =>
         now - cmds[i].profile.lastFortuneTime > DAY_MS
  /\ (profile # NullRec /\ profile.lastFortuneTime = 0) => canClaimFortune

\* C9 witness: the dashboard shows a profile whose last claim is exactly
\* 24 h old; no command is pending and the Claim button is disabled.
C9_Witness ==
  /\ DashboardShown
  /\ ~txPending
  /\ issued = 0
  /\ now - profile.lastFortuneTime = DAY_MS
  /\ ClaimDisabled

\* C10: a claimDailyFortune that the wallet accepted adds a reward of
\* 10..59 to the xp of the profile it was called on, recomputes the level,
\* sets lastFortuneTime to now and leaves the other fields alone; the result
\* is saved under the caller's key unless setItem throws; canClaimFortune is
\* false afterwards, and is true only when more than 24 h have passed.
C10_ClaimEffect ==
  [][ /\ \A i \in 1..Len(cmds), saved \in BOOLEAN :
           (\E k \in RandomDraws : ClaimDone(i, k, saved)) =>
             LET p == cmds[i].profile
                 q == profile'
             IN /\ q.xp - p.xp \in 10..59
                /\ q.level = (q.xp \div 100) + 1
                /\ q.lastFortuneTime = now
                /\ q.element = p.element
                /\ q.luckyNumber = p.luckyNumber
                /\ q.energy = p.energy
                /\ q.winStreak = p.winStreak
                /\ q.exists = p.exists
                /\ saved => store'[StorageKey(cmds[i].address)] = Stringify(q)
                /\ ~canClaimFortune'
      /\ canClaimFortune' =>
           (profile' # NullRec /\ now' - profile'.lastFortuneTime > DAY_MS) ]_vars

\* C10 witness: the veteran's claim drew 59: xp 95 -> 154, level 2, saved,
\* and the Claim button is off.
C10_Witness ==
  /\ profile # NullRec
  /\ profile.xp = 154
  /\ profile.level = 2
  /\ profile.lastFortuneTime = now
  /\ Stored("addrA") = Stringify(profile)
  /\ ~canClaimFortune
  /\ ~txPending

\* C11: an opponent string that is not 0x followed by exactly 40 hex digits
\* never reaches initiateMatch: every initiateMatch call in flight, and the
\* winner of every MatchResult, is the 42 characters of an address, so a
\* malformed opponent causes no submission, no pending flag, no change of
\* profile or store and no MatchResult.
C11_MalformedOpponentRejected ==
  LET WellFormed(s) ==
        /\ Len(Chars(s)) = 42
        /\ SubSeq(Chars(s), 1, 2) = <<"0", "x">>
        /\ \A j \in 3..42 : Chars(s)[j] \in HexDigits
  IN /\ \A i \in 1..Len(cmds) : cmds[i].op = "match" => WellFormed(cmds[i].arg)
     /\ lastMatchResult # NullRec => WellFormed(lastMatchResult.winner)
     /\ txPending => issued > 0

\* C11 witness: the dashboard shows a profile with enough energy, the
\* opponent field holds 0x and 39 hex digits, and nothing was submitted.
C11_Witness ==
  /\ DashboardShown
  /\ opponentAddress = "hex39"
  /\ profile.energy >= 10
  /\ ethereum
  /\ ~txPending
  /\ issued = 0
  /\ cmds = <<>>
  /\ lastMatchResult = NullRec
  /\ Stored(address) = Stringify(profile)

\* C12: every initiateMatch call in flight was made on a profile with at
\* least 10 energy: with less, the Challenge button is disabled, nothing is
\* submitted and profile, store and MatchResult stay as they are.
C12_InsufficientEnergyRejected ==
  \A i \in 1..Len(cmds) :
    cmds[i].op = "match" => cmds[i].profile.energy >= 10

\* C12 witness: the dashboard shows a profile with energy below 10 and a
\* well-formed opponent; no command is pending and one more could be issued.
C12_Witness ==
  /\ DashboardShown
  /\ profile.energy < 10
  /\ opponentAddress = "addrA"
  /\ ethereum
  /\ ~txPending
  /\ cmds = <<>>
  /\ issued < MaxCmds

\* C13: an initiateMatch that the wallet accepted, on the profile p it was
\* called on: a win (Math.random() > 0.5) gives xp + 25 and winStreak + 1, a
\* loss xp + 5 and winStreak 0; energy is 10 less and not below 0, the level
\* is that of the new xp, element, luckyNumber and lastFortuneTime are those
\* of p; one MatchResult is recorded, and the store holds the profile unless
\* setItem throws.  On energy 50, winStreak 3 a loss gives energy 40,
\* winStreak 0 and xp + 5.
C13_MatchEffect ==
  [][ /\ \A i \in 1..Len(cmds), kElement \in ElementDraws,
            kWin \in RandomDraws, saved \in BOOLEAN :
           MatchDone(i, kElement, kWin, saved) =>
             LET p == cmds[i].profile
                 q == profile'
                 win == 2 * kWin > RandScale
             IN /\ win => (q.xp = p.xp + 25 /\ q.winStreak = p.winStreak + 1)
                /\ ~win => (q.xp = p.xp + 5 /\ q.winStreak = 0)
                /\ q.energy = IF p.energy >= 10 THEN p.energy - 10 ELSE 0
                /\ q.level = (q.xp \div 100) + 1
                /\ q.element = p.element
                /\ q.luckyNumber = p.luckyNumber
                /\ q.lastFortuneTime = p.lastFortuneTime
                /\ q.exists = p.exists
                /\ lastMatchResult' # NullRec
                /\ lastMatchResult'.winner =
                     IF win THEN cmds[i].address ELSE cmds[i].arg
                /\ lastMatchResult'.timestamp = now
                /\ lastMatchResult'.player1Element = p.element
                /\ \E e \in 1..4 : lastMatchResult'.player2Element = ELEMENTS[e]
                /\ saved => store'[StorageKey(cmds[i].address)] = Stringify(q)
      /\ LET p == [Veteran EXCEPT !.energy = 50, !.winStreak = 3]
             q == MatchProfile(p, FALSE)
         IN q.energy = 40 /\ q.winStreak = 0 /\ q.xp = p.xp + 5 ]_vars

\* C13 witness: the veteran won a match: xp 95 -> 120, level 2, streak 1,
\* energy 0, recorded and saved.
C13_Witness ==
  /\ address = "addrA"
  /\ profile # NullRec
  /\ profile.xp = 120
  /\ profile.level = 2
  /\ profile.winStreak = 1
  /\ profile.energy = 0
  /\ lastMatchResult # NullRec
  /\ lastMatchResult.winner = "addrA"
  /\ Stored("addrA") = Stringify(profile)

\* C14: a createProfile(e) that the wallet accepted for an identity with no
\* stored profile leaves in memory the profile with element e, a lucky
\* number of 1..100, xp 0, level 1, energy 100, winStreak 0,
\* lastFortuneTime 0 and exists true, and, unless setItem throws, a load of
\* that identity returns exactly this record.
C14_CreateEffect ==
  [][ \A i \in 1..Len(cmds), k \in RandomDraws, saved \in BOOLEAN :
        (CreateDone(i, k, saved) /\ Stored(cmds[i].address) = NoItem) =>
          /\ profile'.element = cmds[i].arg
          /\ profile'.luckyNumber \in 1..100
          /\ profile'.xp = 0
          /\ profile'.level = 1
          /\ profile'.energy = 100
          /\ profile'.winStreak = 0
          /\ profile'.lastFortuneTime = 0
          /\ profile'.exists = TRUE
          /\ DOMAIN profile' = {"element", "luckyNumber", "xp", "level", "energy",
                                "winStreak", "lastFortuneTime", "exists"}
          /\ saved => LoadProfile(store', cmds[i].address) = profile' ]_vars

\* C14 witness: addrB, who had no stored profile, has created a Fire
\* profile with lucky number 100, and the store returns it.
C14_Witness ==
  /\ address = "addrB"
  /\ profile # NullRec
  /\ profile.element = "Fire"
  /\ profile.luckyNumber = 100
  /\ profile.xp = 0
  /\ profile.energy = 100
  /\ LoadProfile(store, "addrB") = profile

\* C15: whenever address is null the view is connect, whatever isLoading,
\* profile and lastMatchResult hold; and one run of the view effect with no
\* address gives connect from every previous view.
C15_NoIdentityMeansConnect ==
  /\ address = NullAddr => view = "connect"
  /\ \A loading \in BOOLEAN, prof \in {NullRec, Veteran},
        lmr \in {NullRec, MatchResultOf("addrA", Veteran, "addrB", 0, TRUE, StartNow)},
        v \in Views :
       ResolveView(NullAddr, loading, prof, lmr, v) = "connect"

\* C15 witness: the user disconnected from the dashboard after a match: the
\* profile and the MatchResult are still in memory and the view is connect.
C15_Witness ==
  /\ address = NullAddr
  /\ ProfileExists(profile)
  /\ lastMatchResult # NullRec
  /\ fetches = <<>>
  /\ view = "connect"

\* C16 as stated: while a fetchProfile() for the current address is still
\* waiting on its timer, the view is connect (neither create nor dashboard).
C16_LoadingKeepsConnect ==
  (address # NullAddr /\ \E j \in 1..Len(fetches) : fetches[j] = address) =>
    view = "connect"

\* C17: for every combination of address, isLoading, profile,
\* lastMatchResult and previous view, one run of the view effect gives: no
\* address -> connect; loading -> connect; no profile -> create; a
\* MatchResult and previous view match -> battle; previous view connect or
\* create -> dashboard; otherwise the previous view.
C17_ViewPrecedence ==
  LET next == ResolveView(address, isLoading, profile, lastMatchResult, view)
      noIdentity == address = NullAddr
      absent == profile = NullRec
      toBattle == lastMatchResult # NullRec /\ view = "match"
      fromEntry == view = "connect" \/ view = "create"
  IN /\ noIdentity => next = "connect"
     /\ (~noIdentity /\ isLoading) => next = "connect"
     /\ (~noIdentity /\ ~isLoading /\ absent) => next = "create"
     /\ (~noIdentity /\ ~isLoading /\ ~absent /\ toBattle) => next = "battle"
     /\ (~noIdentity /\ ~isLoading /\ ~absent /\ ~toBattle /\ fromEntry) =>
          next = "dashboard"
     /\ (~noIdentity /\ ~isLoading /\ ~absent /\ ~toBattle /\ ~fromEntry) =>
          next = view

\* C17 witness: the effect ran on the match view with a MatchResult: the
\* view is battle and matchElement is the result's opponent element.
C17_Witness ==
  /\ view = "battle"
  /\ lastMatchResult # NullRec
  /\ matchElement = lastMatchResult.player2Element
  /\ address # NullAddr
  /\ ProfileExists(profile)

\* C18: when the load started by a connect resolves, the profile in memory
\* is, field for field, the record last saved for the address the load was
\* started for (null when none was saved); and a disconnect leaves the
\* store as it is.
C18_ProfileSurvivesSession ==
  [][ /\ (fetches # <<>> /\ fetches' = Tail(fetches)) =>
           IF Stored(Head(fetches)) = NoItem
           THEN profile' = NullRec
           ELSE /\ profile' # NullRec
                /\ DOMAIN profile' = {"element", "luckyNumber", "xp", "level",
                                      "energy", "winStreak", "lastFortuneTime",
                                      "exists"}
                /\ Stored(Head(fetches)) =
                     <<profile'.element, profile'.luckyNumber, profile'.xp,
                       profile'.level, profile'.energy, profile'.winStreak,
                       profile'.lastFortuneTime, profile'.exists>>
      /\ (address # NullAddr /\ address' = NullAddr) => store' = store ]_vars

\* C18 witness: addrA played (the stored record is no longer the initial
\* one), then disconnected and connected again; the load for addrA is
\* about to resolve.
C18_Witness ==
  /\ address = "addrA"
  /\ fetches = <<"addrA">>
  /\ isLoading
  /\ view = "connect"
  /\ cmds = <<>>
  /\ issued >= 1
  /\ Stored("addrA") # NoItem
  /\ Stored("addrA") # Stringify(Veteran)
  /\ Parse(Stored("addrA")).element = "Earth"

\* C19 as stated: once the store holds a record for an identity, no step
\* changes the element or the luckyNumber stored for that identity.
C19_ElementAndLuckyImmutable ==
  [][ \A a \in Identities :
        Stored(a) # NoItem =>
          /\ Stored(a)' # NoItem
          /\ Parse(Stored(a)').element = Parse(Stored(a)).element
          /\ Parse(Stored(a)').luckyNumber = Parse(Stored(a)).luckyNumber ]_vars

\* C20 as stated: the xp of every stored profile is non-negative and no
\* step makes it smaller.
C20_XpNeverDecreases ==
  [][ \A a \in Identities :
        /\ Stored(a)' # NoItem => Parse(Stored(a)').xp >= 0
        /\ Stored(a) # NoItem =>
             /\ Stored(a)' # NoItem
             /\ Parse(Stored(a)').xp >= Parse(Stored(a)).xp ]_vars

\* C21: whenever an address is set, disconnect() can be taken, also while a
\* load or a command is in flight; the step sets address and chainId to
\* null, starts no wallet request (the connect and the commands in flight
\* are what they were, no load is started) and leaves the store unchanged.
C21_DisconnectIsLocalClear ==
  /\ [](address # NullAddr => ENABLED Disconnect)
  /\ [][ (address # NullAddr /\ address' = NullAddr) =>
           /\ chainId' = NullNum
           /\ conn' = conn
           /\ cmds' = cmds
           /\ fetches' = fetches
           /\ store' = store ]_vars

\* C21 witness: the user has disconnected while a command and a load were
\* in flight.
C21_Witness ==
  /\ address = NullAddr
  /\ chainId = NullNum
  /\ cmds # <<>>
  /\ fetches # <<>>
  /\ view = "connect"

\* C22: when the wallet reports a chain other than 8453, the rest of
\* connect() never unsets the address, whether the switch request resolves,
\* rejects, or the registration that follows ends; chainId becomes 8453
\* only by the wallet reporting it or by the switch request resolving; and
\* isConnecting is false whenever no connect() is in flight.
C22_SwitchIsBestEffort ==
  [][ /\ (conn.pc \in {"switch", "add"} /\ conn' # conn) =>
           /\ address' = address
           /\ conn'.pc \in {"add", "idle"}
           /\ (conn.pc = "add" => conn'.pc = "idle")
      /\ ConnSwitchOk => chainId' = BASE_CHAIN
      /\ (\E unknown \in BOOLEAN : ConnSwitchFail(unknown)) => chainId' = chainId
      /\ ConnAddDone => chainId' = chainId
      /\ (chainId' = BASE_CHAIN /\ chainId # BASE_CHAIN) =>
           \/ conn.pc = "request"
           \/ (conn.pc = "switch" /\ conn'.pc = "idle")
      /\ (conn'.pc = "idle") <=> ~isConnecting' ]_vars

\* C22 witness: connect() has ended with the address set, its profile on
\* the dashboard and the chain still the one the wallet reported.
C22_Witness ==
  /\ address # NullAddr
  /\ chainId \in OtherChains
  /\ conn = Idle
  /\ ~isConnecting
  /\ DashboardShown

\* C23 as stated: whenever an address is set and isLoading is false, the
\* profile in memory is null when the store has no record for the address,
\* and is the stored record otherwise.
C23_ProfileBelongsToIdentity ==
  (address # NullAddr /\ ~isLoading) =>
    IF Stored(address) = NoItem
    THEN profile = NullRec
    ELSE profile # NullRec /\ Stringify(profile) = Stored(address)

\* C24 as stated: every write to the store record of an identity is a fresh
\* creation, or is derived from the record the identity had before (same
\* element and luckyNumber, xp not less).
C24_StoreIsolatedPerIdentity ==
  [][ \A a \in Identities :
        Stored(a)' # Stored(a) =>
          LET new == Parse(Stored(a)') IN
            \/ /\ new.xp = 0
               /\ new.level = 1
               /\ new.energy = 100
               /\ new.winStreak = 0
               /\ new.lastFortuneTime = 0
            \/ /\ Stored(a) # NoItem
               /\ new.element = Parse(Stored(a)).element
               /\ new.luckyNumber = Parse(Stored(a)).luckyNumber
               /\ new.xp >= Parse(Stored(a)).xp ]_vars

\* C25 as stated: once an initiateMatch has recorded a MatchResult, the
\* view eventually becomes battle (the timers fire and the wallet answers).
C25_MatchEventuallyDisplayed ==
  (lastMatchResult # NullRec) ~> (view = "battle")

\* C26 as stated: in every completed initiateMatch, the winner of the
\* MatchResult is the caller's address exactly when the update gave 25 xp
\* and one more win in the streak; otherwise the winner is the opponent, 5
\* xp were given and the streak is 0.
C26_WinnerAgreesWithOutcome ==
  [][ \A i \in 1..Len(cmds) :
        (\E kElement \in ElementDraws, kWin \in RandomDraws, saved \in BOOLEAN :
           MatchDone(i, kElement, kWin, saved)) =>
          LET p == cmds[i].profile
              won == /\ profile'.xp = p.xp + 25
                     /\ profile'.winStreak = p.winStreak + 1
              lost == /\ profile'.xp = p.xp + 5
                      /\ profile'.winStreak = 0
          IN /\ (lastMatchResult'.winner = cmds[i].address) <=> won
             /\ ~won => (lastMatchResult'.winner = cmds[i].arg /\ lost) ]_vars

\* C27: whenever the settled view is dashboard, match or battle, an
\* address is set, isLoading is false and the profile in memory has
\* exists = true; and from whichever previous view, match and battle
\* included, the view effect settles on one of these three only then.
C27_NoProfileViewWithoutProfile ==
  /\ view \in {"dashboard", "match", "battle"} =>
       /\ address # NullAddr
       /\ ~isLoading
       /\ profile # NullRec
       /\ profile.exists = TRUE
  /\ \A v \in Views :
       StableView(address, isLoading, profile, lastMatchResult, v)
           \in {"dashboard", "match", "battle"} =>
         /\ address # NullAddr
         /\ ~isLoading
         /\ profile # NullRec
         /\ profile.exists = TRUE

\* C27 witness: the dashboard is shown again after a match, a disconnect
\* and a reconnect: the address is set, the load is over and the profile
\* exists.
C27_Witness ==
  /\ view = "dashboard"
  /\ address # NullAddr
  /\ ~isLoading
  /\ fetches = <<>>
  /\ ProfileExists(profile)
  /\ lastMatchResult # NullRec
  /\ lastMatchResult.timestamp < now

====
